---- MODULE Spec2Model ----
(***************************************************************************)
(* A model of mysql_info_exporter (src/main.go).                           *)
(*                                                                         *)
(* The process: main reads config.yaml, starts one goroutine per           *)
(* configured database, then serves /metrics on :18080.  Each database     *)
(* goroutine opens a handle (log.Fatalf on error), starts a second         *)
(* goroutine that loops collectConnCount / sleep 5 min, and itself loops   *)
(* collectMetrics / sleep 55 min.  The five GaugeVecs are the registry.    *)
(*                                                                         *)
(* Two grains are modelled with the same operators:                        *)
(*   - Spec / FairSpec: the goroutines interleave at every Gauge.Set, the  *)
(*     only steps that touch shared memory; the inputs are small.          *)
(*   - SpecStorage / SpecProc / SpecIdem: collectMetrics and               *)
(*     collectConnCount are called one after another, each call one step,  *)
(*     on richer inputs.                                                   *)
(*                                                                         *)
(* A GET /metrics is one atomic read of the registry.  promhttp gathers    *)
(* the gauges one by one, so it can see at least what is seen here.        *)
(*                                                                         *)
(* Values are integers: float64(x) is exact for every |x| <= 2^53, far     *)
(* above the values drawn here.                                            *)
(***************************************************************************)
EXTENDS Integers, Sequences, FiniteSets, TLC

VARIABLES
    config,      \* readConfig's result: [err, Databases]
    mainPc,      \* where main is: "readConfig", "spawn", "listen", "serving"
    spawned,     \* how many entries of config.Databases main has started
    exited,      \* the process has ended through log.Fatal / log.Fatalf
    fatalBy,     \* what ended it: "none", "config", "open", "listen"
    gpc,         \* per database: where its collectMetrics goroutine is
    cpc,         \* per database: where its collectConnCount goroutine is
    pending,     \* per database: the Set calls collectMetrics has still to make
    cpending,    \* per database: the Set calls collectConnCount has still to make
    res,         \* per database: the query results of the current cycle
    before,      \* per database: processListCount samples when SHOW PROCESSLIST ran
    reg,         \* the registry: the set of samples <<metric, labels, value>>
    written,     \* history: per (metric, labels), the last Set call completed on it
    scraped,     \* a GET /metrics has been served
    call,        \* sequential grain: the last call and its inputs
    repeated,    \* sequential grain: the last call repeated the one before it
    wlog         \* sequential grain: the Set calls the last call made, in order

vars == <<config, mainPc, spawned, exited, fatalBy, gpc, cpc, pending, cpending,
          res, before, reg, written, scraped,
          call, repeated, wlog>>

procVars == <<config, mainPc, spawned, exited, fatalBy, gpc, cpc, pending,
              cpending, res, before, scraped>>

seqVars == <<call, repeated, wlog>>

-----------------------------------------------------------------------------
(* Bounds of the model. *)

\* rows in one result of the information_schema.tables query
MaxRows == 2
\* rows in one result of SHOW PROCESSLIST
MaxProcs == 2
\* rows in one result of the connection count query
MaxConns == 1

-----------------------------------------------------------------------------
(* Database cells.  A cell is NULL or holds a value; sql.NullString,      *)
(* sql.NullInt64 and sql.NullFloat64 scan a NULL to Valid = false and the  *)
(* zero value, a plain string or int destination fails on NULL.            *)

Null == [isNull |-> TRUE, v |-> 0]

Val(x) == [isNull |-> FALSE, v |-> x]

NullS == [isNull |-> TRUE, v |-> ""]

\* rows.Scan into a sql.NullInt64 / sql.NullFloat64
ScanNullNum(c) == IF c.isNull THEN [Valid |-> FALSE, V |-> 0] ELSE [Valid |-> TRUE, V |-> c.v]

\* rows.Scan into a sql.NullString
ScanNullString(c) == IF c.isNull THEN [Valid |-> FALSE, String |-> ""] ELSE [Valid |-> TRUE, String |-> c.v]

\* rows.Scan into a plain string fails on NULL
ScanStringOk(c) == ~c.isNull

\* rows.Scan into a plain int fails on NULL
ScanIntOk(c) == ~c.isNull

-----------------------------------------------------------------------------
(* The registry: five GaugeVecs, each a map from label values to a value.  *)

GaugeNames == {"mysql_table_size_bytes", "mysql_index_size_bytes", "mysql_table_rows",
               "mysql_processlist_count", "mysql_conn_count"}

\* a Set call: an argument of the operators below
SetCall(metric, labels, value) == <<metric, labels, value>>

\* GaugeVec.WithLabelValues(...).Set(v) that adds to the stored value, as Add does
GaugeAdd(r, w) ==
    LET old == {s \in r : s[1] = w[1] /\ s[2] = w[2]}
        sum == IF old = {} THEN w[3] ELSE (CHOOSE s \in old : TRUE)[3] + w[3]
    IN  (r \ old) \cup {<<w[1], w[2], sum>>}

\* a Set that first resets the GaugeVec, dropping the other label sets of the metric
GaugeResetSet(r, w) == {s \in r : s[1] # w[1]} \cup {w}

\* GaugeVec.WithLabelValues(labels...).Set(v): create the child on first use,
\* overwrite its value
GaugeSet(r, w) == {s \in r : ~(s[1] = w[1] /\ s[2] = w[2])} \cup {w}

\* whether the child (metric, labels) was ever created
Has(r, metric, labels) == \E s \in r : s[1] = metric /\ s[2] = labels

\* the value stored at (metric, labels), where the child exists
GaugeGet(r, metric, labels) == (CHOOSE s \in r : s[1] = metric /\ s[2] = labels)[3]

\* the samples of one metric whose cloud_name label is cloudName
SamplesOf(r, metric, cloudName) == {s \in r : s[1] = metric /\ s[2][1] = cloudName}

\* the (metric, labels) keys present
Keys(r) == {<<s[1], s[2]>> : s \in r}

\* promhttp.Handler(): the samples as they are rendered
Render(r) == r

\* the history after the Set call w: w is now the last Set call on its key
Log(h, w) == {x \in h : <<x[1], x[2]>> # <<w[1], w[2]>>} \cup {w}

RECURSIVE LogAll(_, _)
LogAll(h, ws) == IF ws = <<>> THEN h ELSE LogAll(Log(h, Head(ws)), Tail(ws))

RECURSIVE ApplyAll(_, _)
\* a run of Set calls, in order
ApplyAll(r, ws) == IF ws = <<>> THEN r ELSE ApplyAll(GaugeSet(r, Head(ws)), Tail(ws))

-----------------------------------------------------------------------------
(* Query results.  status is "ok", "err" (db.Query returned an error) or   *)
(* "notrun" (the query was not executed in this cycle).                    *)

NotRun == [status |-> "notrun", ncols |-> 0, rows |-> <<>>]

QueryErr == [status |-> "err", ncols |-> 0, rows |-> <<>>]

Result(n, rs) == [status |-> "ok", ncols |-> n, rows |-> rs]

\* every sequence over S of length 0 .. n
SeqsUpTo(S, n) == UNION {[1..k -> S] : k \in 0..n}

-----------------------------------------------------------------------------
(* collectMetrics, first half: the information_schema.tables query.        *)

\* the three Set calls of one row, in the order of the code, written to the
\* wrong gauges: data_length to the index gauge and index_length to the size gauge
storageRowSetsSwapped(cloudName, originPrometheus, row) ==
    IF ~(ScanStringOk(row.table_schema) /\ ScanStringOk(row.table_name))
    THEN <<>>
    ELSE LET labels == <<cloudName, row.table_schema.v, row.table_name.v, originPrometheus>>
             tableRowsVal == ScanNullNum(row.table_rows)
         IN  << SetCall("mysql_table_size_bytes", labels, ScanNullNum(row.index_length).V),
                SetCall("mysql_index_size_bytes", labels, ScanNullNum(row.data_length).V),
                SetCall("mysql_table_rows", labels, tableRowsVal.V) >>

\* one iteration of the rows.Next() loop: nothing when rows.Scan fails (continue),
\* else tableSize, indexSize and tableRows are set at the row's labels
storageRowSets(cloudName, originPrometheus, row) ==
    IF ~(ScanStringOk(row.table_schema) /\ ScanStringOk(row.table_name))
    THEN <<>>
    ELSE LET labels == <<cloudName, row.table_schema.v, row.table_name.v, originPrometheus>>
             tableRowsVal == ScanNullNum(row.table_rows)
         IN  << SetCall("mysql_table_size_bytes", labels, ScanNullNum(row.data_length).V),
                SetCall("mysql_index_size_bytes", labels, ScanNullNum(row.index_length).V),
                SetCall("mysql_table_rows", labels,
                        IF tableRowsVal.Valid THEN tableRowsVal.V ELSE 0) >>

RECURSIVE StorageWrites(_, _, _)
\* the whole loop over the result rows
StorageWrites(cloudName, originPrometheus, rows) ==
    IF rows = <<>> THEN <<>>
    ELSE storageRowSets(cloudName, originPrometheus, Head(rows))
         \o StorageWrites(cloudName, originPrometheus, Tail(rows))

\* a storage query error that does not end the call
RunsProcessListAlways(st) == TRUE

\* err != nil after the first query: log and return, SHOW PROCESSLIST is not run
RunsProcessList(st) == st.status = "ok"

-----------------------------------------------------------------------------
(* collectMetrics, second half: SHOW PROCESSLIST.                          *)

\* only the 8-column Scan, without the 9-column second attempt
procRowScansNoFallback(ncols, row) == ncols = 8 /\ ScanIntOk(row.id)

\* rows.Scan with 8 destinations, and on error rows.Scan with 9: Scan fails when
\* the number of destinations is not the number of columns, or when Id is NULL
procRowScans(ncols, row) ==
    \/ ncols = 8 /\ ScanIntOk(row.id)
    \/ ncols = 9 /\ ScanIntOk(row.id)

\* userStr, dbStr of a scanned row
procGroup(row) ==
    LET user == ScanNullString(row.user)
        db == ScanNullString(row.db)
    IN  << IF user.Valid THEN user.String ELSE "UNKNOWN_USER",
           IF db.Valid THEN db.String ELSE "UNKNOWN_DB" >>

\* userDbCount[userStr][dbStr]++ on a map that creates missing entries at 0
Incr(m, g) == IF g \in DOMAIN m THEN [m EXCEPT ![g] = @ + 1] ELSE m @@ (g :> 1)

RECURSIVE userDbCount(_, _, _)
\* the counting loop: m is the map so far
userDbCount(m, ncols, rows) ==
    IF rows = <<>> THEN m
    ELSE userDbCount(IF procRowScans(ncols, Head(rows)) THEN Incr(m, procGroup(Head(rows))) ELSE m,
                     ncols, Tail(rows))

\* the empty map of make(map[string]map[string]int)
EmptyMap == [g \in {} |-> 0]

RECURSIVE MapWrites(_, _, _)
\* the export loop over the map, in one of the orders range may take
MapWrites(cloudName, originPrometheus, m) ==
    IF DOMAIN m = {} THEN <<>>
    ELSE LET g == CHOOSE x \in DOMAIN m : TRUE
         IN  << SetCall("mysql_processlist_count", <<cloudName, g[1], g[2], originPrometheus>>, m[g]) >>
             \o MapWrites(cloudName, originPrometheus, [x \in DOMAIN m \ {g} |-> m[x]])

RECURSIVE ProcWritesRunning(_, _, _, _)
\* a Set inside the counting loop: every scanned row exports the running count
ProcWritesRunning(cloudName, originPrometheus, ncols, rows) ==
    IF rows = <<>> THEN <<>>
    ELSE LET n == Len(rows)
             init == SubSeq(rows, 1, n - 1)
             m == userDbCount(EmptyMap, ncols, rows)
             g == procGroup(rows[n])
         IN  ProcWritesRunning(cloudName, originPrometheus, ncols, init)
             \o (IF procRowScans(ncols, rows[n])
                 THEN << SetCall("mysql_processlist_count",
                                 <<cloudName, g[1], g[2], originPrometheus>>, m[g]) >>
                 ELSE <<>>)

\* count every row first, then one Set per (user, db) of the map
ProcWrites(cloudName, originPrometheus, ncols, rows) ==
    MapWrites(cloudName, originPrometheus, userDbCount(EmptyMap, ncols, rows))

-----------------------------------------------------------------------------
(* collectConnCount.                                                       *)

\* one iteration: nothing when Scan fails (count is NULL), else one Set
connRowSets(cloudName, originPrometheus, row) ==
    IF ~ScanIntOk(row.count)
    THEN <<>>
    ELSE LET dbName == ScanNullString(row.db)
             userName == ScanNullString(row.user)
             db == IF dbName.Valid THEN dbName.String ELSE "UNKNOWN_DB"
             user == IF userName.Valid THEN userName.String ELSE "UNKNOWN_USER"
         IN  << SetCall("mysql_conn_count", <<cloudName, user, db, originPrometheus>>, row.count.v) >>

RECURSIVE ConnWrites(_, _, _)
\* the whole loop over the result rows
ConnWrites(cloudName, originPrometheus, rows) ==
    IF rows = <<>> THEN <<>>
    ELSE connRowSets(cloudName, originPrometheus, Head(rows))
         \o ConnWrites(cloudName, originPrometheus, Tail(rows))

-----------------------------------------------------------------------------
(* Inputs: configurations and query results.                               *)

\* an entry of config.Databases; dsnOk: sql.Open accepts DSN + "?timeout=30s"
Database(name, dsnOk, origin) == [Name |-> name, dsnOk |-> dsnOk, OriginPrometheus |-> origin]

\* readConfig failed
ConfigErr == [err |-> TRUE, Databases |-> <<>>]

\* the unreadable configuration, one database with a DSN sql.Open accepts or
\* rejects, and a good database followed by one whose DSN sql.Open rejects
Configs ==
    {ConfigErr}
    \cup {[err |-> FALSE, Databases |-> << Database("shard1", ok1, "prod") >>] : ok1 \in BOOLEAN}
    \cup {[err |-> FALSE, Databases |-> << Database("shard1", TRUE, "prod"),
                                           Database("shard2", FALSE, "prod") >>]}

\* one database, for the calls of the sequential grain
OneDatabase == {[err |-> FALSE, Databases |-> << Database("shard1", TRUE, "prod") >>]}

StorageRow(s, t, n, d, i) ==
    [table_schema |-> s, table_name |-> t, table_rows |-> n, data_length |-> d, index_length |-> i]

\* the key ORDER BY data_length DESC, index_length DESC sorts on; NULL sorts last
SortKey(c) == IF c.isNull THEN 0 - 1 ELSE c.v

\* rows as the query orders them
Ordered(rs) ==
    \A i \in 1..(Len(rs) - 1) :
        \/ SortKey(rs[i].data_length) > SortKey(rs[i + 1].data_length)
        \/ /\ SortKey(rs[i].data_length) = SortKey(rs[i + 1].data_length)
           /\ SortKey(rs[i].index_length) >= SortKey(rs[i + 1].index_length)

\* information_schema.tables holds one row per (table_schema, table_name)
DistinctTables(rs) ==
    \A i, j \in DOMAIN rs :
        i # j => <<rs[i].table_schema, rs[i].table_name>> # <<rs[j].table_schema, rs[j].table_name>>

\* results of the storage query over the rows R
StorageResults(R, n) ==
    {QueryErr} \cup {Result(5, rs) : rs \in {x \in SeqsUpTo(R, n) : Ordered(x) /\ DistinctTables(x)}}

\* rows of the sequential grain: two tables, NULL and non-NULL counts and sizes,
\* and a row whose table_schema is NULL, which rows.Scan rejects
StorageRowsRich ==
    {StorageRow(Val("app"), Val(t), n, d, Val(512)) :
        t \in {"users", "orders"}, n \in {Null, Val(100)}, d \in {Null, Val(2048)}}
    \cup {StorageRow(NullS, Val("users"), Val(100), Val(2048), Val(512))}

\* rows of the interleaved grain: a table whose values change between cycles, and
\* a second table
StorageRowsSmall ==
    {StorageRow(Val("app"), Val("users"), Val(100), Val(2048), Val(512)),
     StorageRow(Val("app"), Val("users"), Null, Val(4096), Val(512)),
     StorageRow(Val("app"), Val("orders"), Val(100), Val(1024), Val(512))}

ProcRow(id, user, db) == [id |-> id, user |-> user, db |-> db]

\* results of SHOW PROCESSLIST over the rows R: 8 columns (MySQL) or 9 (MariaDB)
ProcResults(R, n) ==
    {QueryErr} \cup {Result(c, rs) : c \in {8, 9}, rs \in SeqsUpTo(R, n)}

\* a user on a db, a NULL db, a NULL user, and a row whose Id is NULL, which fails
\* both Scans
ProcRowsRich ==
    {ProcRow(Val(1), Val("root"), Val("app")),
     ProcRow(Val(2), Val("root"), NullS),
     ProcRow(Val(3), NullS, Val("app")),
     ProcRow(Null, Val("root"), Val("app"))}

ProcRowsSmall == {ProcRow(Val(1), Val("root"), Val("app"))}

ConnRow(db, user, count) == [db |-> db, user |-> user, count |-> count]

\* results of the connection count query over the rows R
ConnResults(R, n) == {QueryErr} \cup {Result(3, rs) : rs \in SeqsUpTo(R, n)}

ConnRowsRich ==
    {ConnRow(d, Val("root"), Val(c)) : d \in {NullS, Val("app")}, c \in {1, 2}}
    \cup {ConnRow(Val("app"), Val("root"), Null)}

ConnRowsSmall == {ConnRow(Val("app"), Val("root"), Val(1))}

-----------------------------------------------------------------------------
(* The state after init() and before main.                                 *)

DBs == DOMAIN config.Databases

cloudName(t) == config.Databases[t].Name

originPrometheus(t) == config.Databases[t].OriginPrometheus

NoCall == [fn |-> "none", t |-> 0, st |-> NotRun, pl |-> NotRun, cn |-> NotRun]

InitWith(C) ==
    /\ config \in C
    /\ mainPc = "readConfig"
    /\ spawned = 0
    /\ exited = FALSE
    /\ fatalBy = "none"
    /\ gpc = [t \in DOMAIN config.Databases |-> "unspawned"]
    /\ cpc = [t \in DOMAIN config.Databases |-> "unspawned"]
    /\ pending = [t \in DOMAIN config.Databases |-> <<>>]
    /\ cpending = [t \in DOMAIN config.Databases |-> <<>>]
    /\ res = [t \in DOMAIN config.Databases |-> [st |-> NotRun, pl |-> NotRun]]
    /\ before = [t \in DOMAIN config.Databases |-> {}]
    /\ reg = {}
    /\ written = {}
    /\ scraped = FALSE
    /\ call = NoCall
    /\ repeated = FALSE
    /\ wlog = <<>>

Init == InitWith(Configs)

-----------------------------------------------------------------------------------------------------------------------------------------------------
(* main.                                                                   *)

\* log.Fatal / log.Fatalf: os.Exit(1).  The goroutines, their locals and the
\* registry end with the process; what was served before stays served
Halt(by) ==
    /\ exited' = TRUE
    /\ fatalBy' = by
    /\ gpc' = [t \in DOMAIN gpc |-> "exited"]
    /\ cpc' = [t \in DOMAIN cpc |-> "exited"]
    /\ pending' = [t \in DOMAIN pending |-> <<>>]
    /\ cpending' = [t \in DOMAIN cpending |-> <<>>]
    /\ res' = [t \in DOMAIN res |-> [st |-> NotRun, pl |-> NotRun]]
    /\ before' = [t \in DOMAIN before |-> {}]
    /\ reg' = {}
    /\ written' = {}
    /\ UNCHANGED <<config, mainPc, spawned, scraped, seqVars>>

\* readConfig returned an error: log.Fatalf
ReadConfigFail ==
    /\ ~exited /\ mainPc = "readConfig" /\ config.err
    /\ Halt("config")

ReadConfigOk ==
    /\ ~exited /\ mainPc = "readConfig" /\ ~config.err
    /\ mainPc' = "spawn"
    /\ UNCHANGED <<config, spawned, exited, fatalBy, gpc, cpc, pending, cpending, res,
                   before, reg, written, scraped, seqVars>>

\* one iteration of the range loop: go func(dbConfig) {...}(dbConfig)
Spawn ==
    /\ ~exited /\ mainPc = "spawn" /\ spawned < Len(config.Databases)
    /\ spawned' = spawned + 1
    /\ gpc' = [gpc EXCEPT ![spawned + 1] = "open"]
    /\ UNCHANGED <<config, mainPc, exited, fatalBy, cpc, pending, cpending, res, before,
                   reg, written, scraped, seqVars>>

\* the loop is over: http.Handle, then the call of ListenAndServe
SpawnDone ==
    /\ ~exited /\ mainPc = "spawn" /\ spawned = Len(config.Databases)
    /\ mainPc' = "listen"
    /\ UNCHANGED <<config, spawned, exited, fatalBy, gpc, cpc, pending, cpending, res,
                   before, reg, written, scraped, seqVars>>

\* ListenAndServe bound :18080 and serves
ListenOk ==
    /\ ~exited /\ mainPc = "listen"
    /\ mainPc' = "serving"
    /\ UNCHANGED <<config, spawned, exited, fatalBy, gpc, cpc, pending, cpending, res,
                   before, reg, written, scraped, seqVars>>

\* ListenAndServe returned its error: log.Fatal
ListenFail ==
    /\ ~exited /\ mainPc = "listen"
    /\ Halt("listen")

\* the listener is up: a GET /metrics arriving now is served
Scrapable == ~exited /\ mainPc = "serving"

\* what a GET /metrics served now answers
ScrapeView == Render(reg)

\* a GET /metrics is served: the handler renders the registry and changes nothing
Scrape ==
    /\ Scrapable
    /\ scraped' = TRUE
    /\ UNCHANGED <<config, mainPc, spawned, exited, fatalBy, gpc, cpc, pending, cpending,
                   res, before, reg, written, seqVars>>

-----
(* The goroutine of one database: sql.Open, then the collectMetrics loop.  *)

\* sql.Open returned an error: log.Fatalf ends the process
OpenFail(t) ==
    /\ ~exited /\ gpc[t] = "open" /\ ~config.Databases[t].dsnOk
    /\ Halt("open")

\* sql.Open returned a handle: the connection count goroutine is started and the
\* collectMetrics loop is entered
OpenOk(t) ==
    /\ ~exited /\ gpc[t] = "open" /\ config.Databases[t].dsnOk
    /\ gpc' = [gpc EXCEPT ![t] = "stQuery"]
    /\ cpc' = [cpc EXCEPT ![t] = "query"]
    /\ UNCHANGED <<config, mainPc, spawned, exited, fatalBy, pending, cpending, res,
                   before, reg, written, scraped, seqVars>>

\* a query error that ends the loop instead of the call
AfterQueryErrStop == "stopped"

\* after "log and return" the loop body goes on to time.Sleep
AfterQueryErr == "sleep"

\* where collectMetrics goes once the Set calls of a phase are known
AfterQuery(ws, setPc, donePc) == IF ws = <<>> THEN donePc ELSE setPc

\* collectMetrics starts: the information_schema.tables query returns a result of SR
StQuery(t, SR) ==
    /\ ~exited /\ gpc[t] = "stQuery"
    /\ \E r \in SR :
        LET ws == StorageWrites(cloudName(t), originPrometheus(t), r.rows)
        IN  /\ res' = [res EXCEPT ![t] = [st |-> r, pl |-> NotRun]]
            /\ pending' = [pending EXCEPT ![t] = ws]
            /\ gpc' = [gpc EXCEPT ![t] = IF RunsProcessList(r)
                                           THEN AfterQuery(ws, "stSet", "plQuery")
                                           ELSE AfterQueryErr]
    /\ UNCHANGED <<config, mainPc, spawned, exited, fatalBy, cpc, cpending, before, reg,
                   written, scraped, seqVars>>

\* the next Set call of the storage loop
StSet(t) ==
    /\ ~exited /\ gpc[t] = "stSet"
    /\ reg' = GaugeSet(reg, Head(pending[t]))
    /\ written' = Log(written, Head(pending[t]))
    /\ pending' = [pending EXCEPT ![t] = Tail(@)]
    /\ gpc' = [gpc EXCEPT ![t] = AfterQuery(Tail(pending[t]), "stSet", "plQuery")]
    /\ UNCHANGED <<config, mainPc, spawned, exited, fatalBy, cpc, cpending, res, before,
                   scraped, seqVars>>

\* SHOW PROCESSLIST returns a result of PR; every row is counted before any Set
PlQuery(t, PR) ==
    /\ ~exited /\ gpc[t] = "plQuery"
    /\ \E r \in PR :
        LET ws == ProcWrites(cloudName(t), originPrometheus(t), r.ncols, r.rows)
        IN  /\ res' = [res EXCEPT ![t].pl = r]
            /\ pending' = [pending EXCEPT ![t] = ws]
            /\ gpc' = [gpc EXCEPT ![t] = IF r.status = "err" THEN AfterQueryErr
                                           ELSE AfterQuery(ws, "plSet", "sleep")]
    /\ before' = [before EXCEPT ![t] = SamplesOf(reg, "mysql_processlist_count", cloudName(t))]
    /\ UNCHANGED <<config, mainPc, spawned, exited, fatalBy, cpc, cpending, reg, written,
                   scraped, seqVars>>

\* s without its i-th element
Remove(s, i) == SubSeq(s, 1, i - 1) \o SubSeq(s, i + 1, Len(s))

\* a Set call of the export loop; range visits the map in any order
PlSet(t) ==
    /\ ~exited /\ gpc[t] = "plSet"
    /\ \E i \in DOMAIN pending[t] :
        /\ reg' = GaugeSet(reg, pending[t][i])
        /\ written' = Log(written, pending[t][i])
        /\ pending' = [pending EXCEPT ![t] = Remove(@, i)]
        /\ gpc' = [gpc EXCEPT ![t] = AfterQuery(Remove(pending[t], i), "plSet", "sleep")]
    /\ UNCHANGED <<config, mainPc, spawned, exited, fatalBy, cpc, cpending, res, before,
                   scraped, seqVars>>

\* time.Sleep(55 * time.Minute) is over: the next iteration
Wake(t) ==
    /\ ~exited /\ gpc[t] = "sleep"
    /\ gpc' = [gpc EXCEPT ![t] = "stQuery"]
    /\ res' = [res EXCEPT ![t] = [st |-> NotRun, pl |-> NotRun]]
    /\ before' = [before EXCEPT ![t] = {}]
    /\ pending' = [pending EXCEPT ![t] = <<>>]
    /\ UNCHANGED <<config, mainPc, spawned, exited, fatalBy, cpc, cpending, reg, written,
                   scraped, seqVars>>

-----------------------------------------------------------------------------
(* The goroutine of the collectConnCount loop.                             *)

\* collectConnCount starts: the query returns a result of CR
ConnQuery(t, CR) ==
    /\ ~exited /\ cpc[t] = "query"
    /\ \E r \in CR :
        LET ws == ConnWrites(cloudName(t), originPrometheus(t), r.rows)
        IN  /\ cpending' = [cpending EXCEPT ![t] = ws]
            /\ cpc' = [cpc EXCEPT ![t] = IF r.status = "err" THEN AfterQueryErr
                                           ELSE AfterQuery(ws, "set", "sleep")]
    /\ UNCHANGED <<config, mainPc, spawned, exited, fatalBy, gpc, pending, res, before,
                   reg, written, scraped, seqVars>>

\* the next Set call of collectConnCount
ConnSet(t) ==
    /\ ~exited /\ cpc[t] = "set"
    /\ reg' = GaugeSet(reg, Head(cpending[t]))
    /\ written' = Log(written, Head(cpending[t]))
    /\ cpending' = [cpending EXCEPT ![t] = Tail(@)]
    /\ cpc' = [cpc EXCEPT ![t] = AfterQuery(Tail(cpending[t]), "set", "sleep")]
    /\ UNCHANGED <<config, mainPc, spawned, exited, fatalBy, gpc, pending, res, before,
                   scraped, seqVars>>

\* time.Sleep(5 * time.Minute) is over: the next iteration
ConnWake(t) ==
    /\ ~exited /\ cpc[t] = "sleep"
    /\ cpc' = [cpc EXCEPT ![t] = "query"]
    /\ UNCHANGED <<config, mainPc, spawned, exited, fatalBy, gpc, pending, cpending, res,
                   before, reg, written, scraped, seqVars>>

-----------------------------------------------------------------------------
(* The interleaved grain.                                                  *)

StorageResultsSmall == StorageResults(StorageRowsSmall, MaxRows)

ProcResultsSmall == {r \in ProcResults(ProcRowsSmall, MaxProcs) : r.ncols # 9}

ConnResultsSmall == ConnResults(ConnRowsSmall, MaxConns)

\* the steps of main, of the goroutine of database t and of its connection count
\* goroutine: what the scheduler is fair to
MainStep ==
    \/ ReadConfigFail
    \/ ReadConfigOk
    \/ Spawn
    \/ SpawnDone
    \/ ListenOk
    \/ ListenFail

MetricsStep(t) ==
    \/ OpenFail(t)
    \/ OpenOk(t)
    \/ StQuery(t, StorageResultsSmall)
    \/ StSet(t)
    \/ PlQuery(t, ProcResultsSmall)
    \/ PlSet(t)
    \/ Wake(t)

ConnStep(t) ==
    \/ ConnQuery(t, ConnResultsSmall)
    \/ ConnSet(t)
    \/ ConnWake(t)

Next ==
    \/ ReadConfigFail
    \/ ReadConfigOk
    \/ Spawn
    \/ SpawnDone
    \/ ListenOk
    \/ ListenFail
    \/ Scrape
    \/ \E t \in DBs : OpenFail(t)
    \/ \E t \in DBs : OpenOk(t)
    \/ \E t \in DBs : StQuery(t, StorageResultsSmall)
    \/ \E t \in DBs : StSet(t)
    \/ \E t \in DBs : PlQuery(t, ProcResultsSmall)
    \/ \E t \in DBs : PlSet(t)
    \/ \E t \in DBs : Wake(t)
    \/ \E t \in DBs : ConnQuery(t, ConnResultsSmall)
    \/ \E t \in DBs : ConnSet(t)
    \/ \E t \in DBs : ConnWake(t)

Spec == Init /\ [][Next]_vars

\* the Go scheduler runs every runnable goroutine, every sleep ends and every
\* query returns; nothing obliges a client to scrape
FairSpec ==
    /\ Spec
    /\ WF_vars(MainStep)
    /\ \A t \in {1, 2} : WF_vars(t \in DBs /\ MetricsStep(t))
    /\ \A t \in {1, 2} : WF_vars(t \in DBs /\ ConnStep(t))

-----------------------------------------------------------------------------
(* The sequential grain: collectMetrics and collectConnCount called one    *)
(* after another on the registry, each call one step.                      *)

\* every Set call of one collectMetrics(db, cloudName, originPrometheus), in order
collectMetrics(cn, op, st, pl) == StorageWrites(cn, op, st.rows) \o ProcWrites(cn, op, pl.ncols, pl.rows)

\* every Set call of one collectConnCount(db, cloudName, originPrometheus), in order
collectConnCount(cn, op, r) == ConnWrites(cn, op, r.rows)

\* the bookkeeping of a call c that makes the Set calls ws
Called(c, ws) ==
    /\ reg' = ApplyAll(reg, ws)
    /\ written' = LogAll(written, ws)
    /\ wlog' = ws
    /\ repeated' = (c = call)
    /\ call' = c
    /\ UNCHANGED procVars

CallCollectMetrics(t, SR, PR) ==
    \E st \in SR : \E pl \in (IF RunsProcessList(st) THEN PR ELSE {NotRun}) :
        Called([fn |-> "collectMetrics", t |-> t, st |-> st, pl |-> pl, cn |-> NotRun],
               collectMetrics(cloudName(t), originPrometheus(t), st, pl))

CallCollectConnCount(t, CR) ==
    \E r \in CR :
        Called([fn |-> "collectConnCount", t |-> t, st |-> NotRun, pl |-> NotRun, cn |-> r],
               collectConnCount(cloudName(t), originPrometheus(t), r))

SeqInit == InitWith(OneDatabase)

StorageResultsRich == StorageResults(StorageRowsRich, MaxRows)

ProcResultsRich == ProcResults(ProcRowsRich, MaxProcs)

ConnResultsRich == ConnResults(ConnRowsRich, MaxConns)

\* one result that fails and one that succeeds, for the half of collectMetrics a
\* specification is not about
StorageResultsOne == StorageResults({StorageRow(Val("app"), Val("users"), Val(100), Val(2048), Val(512))}, 1) \ {Result(5, <<>>)}

ProcResultsOne == {QueryErr, Result(8, << ProcRow(Val(1), Val("root"), Val("app")) >>)}

\* collectMetrics on rich results of the storage query
NextStorage == \E t \in DBs : CallCollectMetrics(t, StorageResultsRich, ProcResultsOne)

SpecStorage == SeqInit /\ [][NextStorage]_vars

\* collectMetrics on rich results of SHOW PROCESSLIST
NextProc == \E t \in DBs : CallCollectMetrics(t, StorageResultsOne, ProcResultsRich)

SpecProc == SeqInit /\ [][NextProc]_vars

\* the three collections, each on results that change between calls
NextIdem ==
    \/ \E t \in DBs : CallCollectMetrics(t, StorageResultsSmall, ProcResultsSmall)
    \/ \E t \in DBs : CallCollectConnCount(t, ConnResultsRich)

SpecIdem == SeqInit /\ [][NextIdem]_vars

-----------------------------------------------------------------------------
(* What the properties below measure against: the values the documentation *)
(* gives, stated on the query results alone.                               *)

\* a numeric cell as a gauge value: NULL counts as 0
NumOrZero(c) == IF c.isNull THEN 0 ELSE c.v

StorageMetrics == {"mysql_table_size_bytes", "mysql_index_size_bytes", "mysql_table_rows"}

IsStorageCall(w) == w[1] \in StorageMetrics

\* a row carrying its table_schema and table_name
IsValidStorageRow(row) == ~row.table_schema.isNull /\ ~row.table_name.isNull

\* the label values (cloud_name, database, table, origin_prometheus) of a row
RowLabels(t, row) == <<config.Databases[t].Name, row.table_schema.v, row.table_name.v,
                       config.Databases[t].OriginPrometheus>>

\* the (user, db) labels a process-list row is grouped under
GroupOf(row) == << IF row.user.isNull THEN "UNKNOWN_USER" ELSE row.user.v,
                   IF row.db.isNull THEN "UNKNOWN_DB" ELSE row.db.v >>

\* a row of an 8- or 9-column result that carries its Id scans in one of the two forms
IsCounted(r, i) == r.ncols \in {8, 9} /\ ~r.rows[i].id.isNull

\* the number of counted rows of group g in the result r
GroupCount(r, g) == Cardinality({i \in DOMAIN r.rows : IsCounted(r, i) /\ GroupOf(r.rows[i]) = g})

\* the groups with a counted row in r
GroupsIn(r) == {GroupOf(r.rows[i]) : i \in {j \in DOMAIN r.rows : IsCounted(r, j)}}

ProcLabels(t, g) == <<config.Databases[t].Name, g[1], g[2], config.Databases[t].OriginPrometheus>>

\* the samples of metric at labels: empty, or the one sample
At(r, metric, labels) == {s \in r : s[1] = metric /\ s[2] = labels}

-----------------------------------------------------------------------------
(* C1 *)

\* C1: if sql.Open fails for a configured database, the process exits before the
\* HTTP listener starts, so no scrape is served in an execution where an open fails.
C1_ExitBeforeListening == fatalBy = "open" => (mainPc # "serving" /\ ~scraped)

-----------------------------------------------------------------------------
(* C2 *)

\* C2: after a collectMetrics call whose storage query succeeded, the Set calls on
\* the three storage gauges are exactly three per valid result row, in row order,
\* all at the row's labels: size <- data_length, index <- index_length, rows <-
\* table_rows, with 0 for NULL; and the registry holds these values.
C2_ThreeUpdatesPerRow ==
    (call.fn = "collectMetrics" /\ call.st.status = "ok") =>
        LET valid == SelectSeq(call.st.rows, IsValidStorageRow)
            slog == SelectSeq(wlog, IsStorageCall)
        IN  /\ Len(slog) = 3 * Len(valid)
            /\ \A i \in DOMAIN valid :
                LET l == RowLabels(call.t, valid[i])
                    want == << <<"mysql_table_size_bytes", l, NumOrZero(valid[i].data_length)>>,
                               <<"mysql_index_size_bytes", l, NumOrZero(valid[i].index_length)>>,
                               <<"mysql_table_rows", l, NumOrZero(valid[i].table_rows)>> >>
                IN  /\ SubSeq(slog, 3 * i - 2, 3 * i) = want
                    /\ \A j \in 1..3 : want[j] \in reg

\* a call on two valid rows, one with NULL table_rows, has made its six Set calls
C2_Witness ==
    /\ call.fn = "collectMetrics" /\ call.st.status = "ok"
    /\ Len(call.st.rows) = 2
    /\ \A i \in 1..2 : IsValidStorageRow(call.st.rows[i])
    /\ call.st.rows[1].table_rows.isNull /\ ~call.st.rows[2].table_rows.isNull
    /\ Len(SelectSeq(wlog, IsStorageCall)) = 6

-----------------------------------------------------------------------------
(* C3 *)

\* C3: a collection call that repeats the call before it, on the same query
\* results, leaves the registry as the first call left it: the same label sets
\* with the same values.
C3_Idempotent == [][call' = call => reg' = reg]_vars

\* collectMetrics was repeated on results with rows in both queries
C3_Witness ==
    /\ repeated /\ call.fn = "collectMetrics"
    /\ call.st.rows # <<>> /\ Len(call.pl.rows) = 2

-----------------------------------------------------------------------------
(* C4 *)

\* C4: while the process runs, the (metric, labels) keys rendered are exactly the
\* keys some Set call has written so far, and no step removes a key.
C4_StalenessPersistence ==
    /\ [](Keys(ScrapeView) = Keys(written))
    /\ [][~exited' => Keys(reg) \subseteq Keys(reg')]_vars

\* a cycle whose storage result is empty, while a storage sample of an earlier
\* cycle is still rendered
C4_Witness ==
    \E t \in DBs :
        /\ gpc[t] \in {"plQuery", "plSet", "sleep"}
        /\ res[t].st.status = "ok" /\ res[t].st.rows = <<>>
        /\ \E s \in ScrapeView : s[1] = "mysql_table_size_bytes"

-----------------------------------------------------------------------------
(* C5 *)

\* the three storage gauges at one label set, as rendered
RowView(l) == {s \in ScrapeView : s[1] \in StorageMetrics /\ s[2] = l}

\* the three samples one row update leaves
RowUpdate(l, row) ==
    {<<"mysql_table_size_bytes", l, NumOrZero(row.data_length)>>,
     <<"mysql_index_size_bytes", l, NumOrZero(row.index_length)>>,
     <<"mysql_table_rows", l, NumOrZero(row.table_rows)>>}

\* C5 as stated: a scrape served during a cycle shows, at every label set, the
\* three storage gauges of one whole row update, never a part of one.
C5_RowAtomic ==
    Scrapable =>
        \A s \in ScrapeView :
            s[1] \in StorageMetrics =>
                \E row \in StorageRowsSmall : RowView(s[2]) = RowUpdate(s[2], row)

\* C5 as amended: a scrape shows every single gauge at the value of the last Set
\* call completed on it and shows nothing else; the three gauges of one row can be
\* at different freshness.
C5_PerGaugeAtomic == Scrapable => ScrapeView = written

\* scrapes are being served while a row is partly applied
C5_Witness ==
    /\ Scrapable /\ scraped
    /\ \E t \in DBs : gpc[t] = "stSet" /\ Len(pending[t]) \in {1, 2}

-----------------------------------------------------------------------------
(* C6 *)

Users == {"root", "UNKNOWN_USER"}

Dbs == {"app", "UNKNOWN_DB"}

\* C6: a collectMetrics call whose SHOW PROCESSLIST succeeded leaves, for every
\* (user, db) with a counted row, processlist_count at the number of counted rows of
\* the group, and every other (user, db) as it was.  A row is counted when it scans
\* in the 8-column or in the 9-column form; NULL user and db are the sentinels.
C6_CountPerGroup ==
    [][(call'.fn = "collectMetrics" /\ call'.pl.status = "ok") =>
        \A g \in Users \X Dbs :
            LET l == ProcLabels(call'.t, g)
                n == GroupCount(call'.pl, g)
            IN  IF n > 0
                THEN At(reg', "mysql_processlist_count", l) = {<<"mysql_processlist_count", l, n>>}
                ELSE At(reg', "mysql_processlist_count", l) = At(reg, "mysql_processlist_count", l)
      ]_vars

\* a 9-column result with a row that fails both Scans and a row with a NULL user
\* has been collected, and a group of an earlier cycle is still there
C6_Witness ==
    /\ call.fn = "collectMetrics" /\ call.pl.status = "ok" /\ call.pl.ncols = 9
    /\ Len(call.pl.rows) = 2
    /\ call.pl.rows[1].id.isNull
    /\ ~call.pl.rows[2].id.isNull /\ call.pl.rows[2].user.isNull
    /\ Cardinality({s \in reg : s[1] = "mysql_processlist_count"}) = 2

-----------------------------------------------------------------------------
(* C7 *)

\* C7: a collectMetrics call whose storage query fails makes no Set call and
\* leaves the registry as it was.
C7_FailedQueryKeepsRegistry ==
    [][(call'.fn = "collectMetrics" /\ call'.st.status = "err") => (reg' = reg /\ wlog' = <<>>)]_vars

\* the storage query failed with samples of earlier cycles in the registry
C7_Witness == call.fn = "collectMetrics" /\ call.st.status = "err" /\ reg # {}

-----------------------------------------------------------------------------
(* C8 *)

\* C8 as stated: whether Process-List Collection executes in a cycle does not
\* depend on Storage Collection: every finished cycle has executed it.
C8_ProcessListAlwaysRuns ==
    \A t \in DBs : gpc[t] = "sleep" => res[t].pl.status # "notrun"

\* C8 as amended: collectConnCount runs on its own timer and never waits;
\* Process-List Collection runs in the loop of Storage Collection, after the
\* last storage Set call, and exactly in the cycles whose storage query succeeded.
C8_OneLoopForStorageAndProcessList ==
    \A t \in DBs :
        /\ gpc[t] = "sleep" => (res[t].pl.status = "notrun" <=> res[t].st.status = "err")
        /\ res[t].pl.status # "notrun" =>
              /\ res[t].st.status = "ok"
              /\ \A i \in DOMAIN pending[t] : ~IsStorageCall(pending[t][i])
        /\ (~exited /\ cpc[t] = "query") => ENABLED ConnQuery(t, ConnResultsSmall)
        /\ (~exited /\ cpc[t] = "set") => ENABLED ConnSet(t)

\* a cycle ended by a failed storage query while collectConnCount is setting gauges
C8_Witness ==
    \E t \in DBs :
        /\ gpc[t] = "sleep" /\ res[t].st.status = "err" /\ res[t].pl.status = "notrun"
        /\ cpc[t] = "set"

-----------------------------------------------------------------------------
(* C9 *)

\* the handle of database t is open
Opened(t) == t \in DBs /\ gpc[t] \in {"stQuery", "stSet", "plQuery", "plSet", "sleep", "stopped"}

-----------------------------------------------------------------------------
(* C10 *)

\* C10: from SHOW PROCESSLIST to the end of the cycle, every processlist_count
\* sample of the database is the one it was when the query ran or carries the
\* final count of its group, no sample is lost, each group is set at most once,
\* and at the end of the cycle every group of the result carries its final count.
C10_NoRunningCount ==
    \A t \in DBs :
        (gpc[t] \in {"plSet", "sleep"} /\ res[t].pl.status = "ok") =>
            LET cur == SamplesOf(ScrapeView, "mysql_processlist_count", config.Databases[t].Name)
                final == {<<"mysql_processlist_count", ProcLabels(t, g), GroupCount(res[t].pl, g)>> :
                            g \in GroupsIn(res[t].pl)}
            IN  /\ cur \subseteq (before[t] \cup final)
                /\ Keys(before[t]) \subseteq Keys(cur)
                /\ Cardinality({pending[t][i][2] : i \in DOMAIN pending[t]}) = Len(pending[t])
                /\ gpc[t] = "sleep" => final \subseteq cur

\* scrapes are served while a group of two rows, exported as 1 by an earlier cycle,
\* waits for its Set call
C10_Witness ==
    \E t \in DBs :
        /\ Scrapable /\ gpc[t] = "plSet" /\ res[t].pl.status = "ok"
        /\ Len(res[t].pl.rows) = 2
        /\ \E s \in before[t] : s[3] = 1

====
